---- MODULE Spec2Model ----
(***************************************************************************)
(* go-ini: the INI encoder (encode.go), the decoder (decode.go), the       *)
(* section tree and the scanner, as one state machine.                     *)
(*                                                                         *)
(* Text is a sequence of byte values (0..255).  A Go string or []byte is   *)
(* modelled by the sequence of its bytes; cursor positions are 0-based as  *)
(* in the source, so buf[bufPos] of the source is buf[bufPos + 1] here.    *)
(***************************************************************************)
EXTENDS Integers, Sequences, FiniteSets, TLC

\* ------------------------------------------------------------------ bytes
NUL == 0
TAB == 9
LF == 10
CR == 13
SP == 32
DQUOTE == 34
HASH == 35
QUOTE == 39
COMMA == 44
MINUS == 45
DOT == 46
SEMI == 59
EQUALS == 61
LBRACKET == 91
BSLASH == 92
RBRACKET == 93
UNDERSCORE == 95

Byte == 0..255

\* The bytes '0'..'9', 'a'..'z', 'A'..'Z' by their codes.
isDigit(char) == char >= 48 /\ char <= 57

isNameChar(char) ==
    \/ char >= 97 /\ char <= 122
    \/ char >= 65 /\ char <= 90
    \/ char = UNDERSCORE

isHexDigit(char) ==
    \/ isDigit(char)
    \/ char >= 97 /\ char <= 102
    \/ char >= 65 /\ char <= 70

isNameCharOrDigit(char) == isNameChar(char) \/ isDigit(char)

isNewlineChar(char) == char = LF \/ char = CR

\* The predicates the decoder hands to takeWhile / takeUntil, as byte sets.
SpaceSet == {SP}
DigitSet == {c \in Byte : isDigit(c)}
NameSet == {c \in Byte : isNameCharOrDigit(c)}
NewlineSet == {c \in Byte : isNewlineChar(c)}
DQuoteSet == {DQUOTE}

\* ---------------------------------------------------------------- scanner
\* scanner.init: the cursor at the first byte, line 1, column 1.
init(buffer) ==
    [buf |-> buffer, bufPos |-> 0, lineNum |-> 1, charNum |-> 1,
     prevLineCharNum |-> 0]

lookAhead(scan, offset) ==
    IF scan.bufPos + offset < Len(scan.buf)
    THEN scan.buf[scan.bufPos + offset + 1]
    ELSE NUL

peek(scan) == lookAhead(scan, 0)

\* scanner.handleNewline: consumes "\r", "\n" or "\r\n"; ok says whether it did.
handleNewline(base) ==
    LET skip(s) == [s EXCEPT !.bufPos = @ + 1]
        done(s, wasNewline) ==
            [scan |-> IF wasNewline
                      THEN [s EXCEPT !.prevLineCharNum = s.charNum,
                                     !.charNum = 1,
                                     !.lineNum = @ + 1]
                      ELSE s,
             ok |-> wasNewline]
        lf(s, wasNewline) ==
            IF peek(s) = LF THEN done(skip(s), TRUE) ELSE done(s, wasNewline)
    IN  IF peek(base) = CR THEN lf(skip(base), TRUE) ELSE lf(base, FALSE)

\* scanner.advance: returns the byte under the cursor; a zero byte (the
\* end-of-buffer sentinel, or a zero byte of the buffer) leaves the cursor
\* where it is.
advance(scan) ==
    LET move(previous) ==
            [scan |-> IF previous = NUL THEN scan
                      ELSE IF previous = LF \/ previous = CR
                      THEN handleNewline(scan).scan
                      ELSE [scan EXCEPT !.bufPos = @ + 1, !.charNum = @ + 1],
             char |-> previous]
    IN  move(peek(scan))

consume(base, char) ==
    IF peek(base) = char
    THEN [scan |-> advance(base).scan, ok |-> TRUE]
    ELSE [scan |-> base, ok |-> FALSE]

\* scanner.take with the producer of takeWhile: while the cursor is inside
\* the buffer and the byte under it is in `set`, append it and advance.
\* hang: the byte is in `set` but advance does not move (a zero byte inside
\* the buffer), so the loop of take never ends.
RECURSIVE takeWhile(_, _)
takeWhile(base, set) ==
    LET rest(a, r) ==
            [scan |-> r.scan, out |-> <<a.char>> \o r.out, hang |-> r.hang]
        step(a) ==
            IF a.scan.bufPos = base.bufPos
            THEN [scan |-> base, out |-> <<>>, hang |-> TRUE]
            ELSE rest(a, takeWhile(a.scan, set))
    IN  IF base.bufPos >= Len(base.buf) \/ peek(base) \notin set
        THEN [scan |-> base, out |-> <<>>, hang |-> FALSE]
        ELSE step(advance(base))

takeUntil(base, set) == takeWhile(base, Byte \ set)

\* ----------------------------------------------------------------- errors
\* An error value: its kind and, for the syntax errors, the offending byte,
\* line and column it carries (errUnexpectedChar, errExpectedNewLine).
NoErr == [kind |-> "none", char |-> 0, line |-> 0, col |-> 0]

errUnexpectedChar(char, line, column) ==
    [kind |-> "unexpected character", char |-> char, line |-> line,
     col |-> column]

errExpectedNewLine(line, column) ==
    [kind |-> "expected new line", char |-> 0, line |-> line, col |-> column]

errOther(kind) == [kind |-> kind, char |-> 0, line |-> 0, col |-> 0]

\* ---------------------------------------------------------- decoder grammar
skipSpaces(d) == takeWhile(d, SpaceSet).scan

\* Decoder.name: spaces, name characters, spaces.
name(d) ==
    LET after(t) == [scan |-> skipSpaces(t.scan), out |-> t.out]
    IN  after(takeWhile(skipSpaces(d), NameSet))

\* hex.Decode of one hex digit.
hexVal(c) ==
    IF isDigit(c) THEN c - 48
    ELSE IF c >= 97 /\ c <= 102 THEN c - 87
    ELSE c - 55

\* Decoder.takeStringChar: one step of the single-quote grammar.
\* res: "more" (a byte produced), "stop", "error", "panic".
takeStringChar(d) ==
    LET more(s, b) == [scan |-> s, out |-> <<b>>, res |-> "more", err |-> NoErr]
        hex2(h1, h2) == more(h2.scan, hexVal(h1.char) * 16 + hexVal(h2.char))
        hex1(h1) == hex2(h1, advance(h1.scan))
        escape(esc) ==
            IF esc.char = CR THEN more(consume(esc.scan, LF).scan, LF)
            ELSE IF esc.char = LF \/ esc.char = 110 THEN more(esc.scan, LF)
            ELSE IF esc.char = 114 THEN more(esc.scan, CR)
            ELSE IF esc.char = 116 THEN more(esc.scan, TAB)
            ELSE IF esc.char = BSLASH THEN more(esc.scan, BSLASH)
            ELSE IF esc.char = QUOTE THEN more(esc.scan, QUOTE)
            ELSE IF esc.char = DQUOTE THEN more(esc.scan, DQUOTE)
            ELSE IF esc.char = 120
            THEN IF ~isHexDigit(peek(esc.scan))
                    \/ ~isHexDigit(lookAhead(esc.scan, 1))
                 THEN [scan |-> esc.scan, out |-> <<>>, res |-> "panic",
                       err |-> errOther("panic: TODO")]
                 ELSE hex1(advance(esc.scan))
            ELSE [scan |-> esc.scan, out |-> <<>>, res |-> "error",
                  err |-> errOther("invalid escape sequence")]
        plain(a) == more(a.scan, a.char)
    IN  IF peek(d) = NUL \/ peek(d) = QUOTE \/ isNewlineChar(peek(d))
        THEN [scan |-> d, out |-> <<>>, res |-> "stop", err |-> NoErr]
        ELSE IF peek(d) # BSLASH THEN plain(advance(d))
        ELSE escape(advance(consume(d, BSLASH).scan))

\* scanner.take with takeStringChar as producer: res "ok", "error" or "panic".
RECURSIVE takeString(_)
takeString(d) ==
    LET rest(c, r) ==
            [scan |-> r.scan, out |-> c.out \o r.out, res |-> r.res,
             err |-> r.err]
        step(c) ==
            IF c.res = "stop"
            THEN [scan |-> c.scan, out |-> <<>>, res |-> "ok", err |-> NoErr]
            ELSE IF c.res # "more"
            THEN [scan |-> c.scan, out |-> <<>>, res |-> c.res, err |-> c.err]
            ELSE rest(c, takeString(c.scan))
    IN  IF d.bufPos >= Len(d.buf)
        THEN [scan |-> d, out |-> <<>>, res |-> "ok", err |-> NoErr]
        ELSE step(takeStringChar(d))

\* The literal at the cursor (the switch of Decoder.value).
\* res: "ok", "error", "panic", "hang".
literal(d) ==
    LET ok(s, o) == [scan |-> s, out |-> o, res |-> "ok", err |-> NoErr]
        quoted(t) ==
            IF t.res # "ok"
            THEN [scan |-> t.scan, out |-> <<>>, res |-> t.res, err |-> t.err]
            ELSE ok(advance(t.scan).scan, t.out)
        dquoted(t) ==
            IF t.hang
            THEN [scan |-> t.scan, out |-> <<>>, res |-> "hang", err |-> NoErr]
            ELSE ok(advance(t.scan).scan, t.out)
        fraction(t1, t2) == ok(t2.scan, t1.out \o <<DOT>> \o t2.out)
        number(t1) ==
            IF peek(t1.scan) = DOT
            THEN fraction(t1, takeWhile(consume(t1.scan, DOT).scan, DigitSet))
            ELSE ok(t1.scan, t1.out)
        word(t) == ok(t.scan, t.out)
    IN  IF peek(d) = QUOTE THEN quoted(takeString(advance(d).scan))
        ELSE IF peek(d) = DQUOTE
        THEN dquoted(takeUntil(advance(d).scan, DQuoteSet))
        ELSE IF isDigit(peek(d)) THEN number(takeWhile(d, DigitSet))
        ELSE IF isNameChar(peek(d)) THEN word(takeWhile(d, NameSet))
        ELSE IF isNewlineChar(peek(d)) THEN ok(d, <<>>)
        ELSE [scan |-> d, out |-> <<>>, res |-> "error",
              err |-> errUnexpectedChar(peek(d), d.lineNum, d.charNum)]

\* What Decoder.value does with the result (v, err) of its recursive call
\* after a comma: the error is dropped, the value text (empty on error) is
\* appended after the comma and scanning goes on from where the call stopped.
\* A panic or a loop that never ends is not an error value and passes through.
afterComma(lit, r) ==
    IF r.res \in {"panic", "hang"}
    THEN [scan |-> r.scan, out |-> <<>>, res |-> r.res, err |-> r.err]
    ELSE [scan |-> r.scan, out |-> lit \o <<COMMA>> \o r.out, res |-> "ok",
          err |-> NoErr]

\* Decoder.value: a literal, then after a comma another value, then after a
\* semicolon a comment up to the end of the line.
RECURSIVE value(_)
value(d) ==
    LET comment(v, rest) ==
            IF rest.hang
            THEN [scan |-> rest.scan, out |-> <<>>, res |-> "hang",
                  err |-> NoErr]
            ELSE [scan |-> rest.scan, out |-> v.out, res |-> "ok",
                  err |-> NoErr]
        trailing(v, semi) ==
            IF semi.ok THEN comment(v, takeUntil(semi.scan, NewlineSet))
            ELSE v
        joined(v) ==
            IF v.res # "ok" THEN v ELSE trailing(v, consume(v.scan, SEMI))
        list(l, comma) ==
            IF comma.ok THEN joined(afterComma(l.out, value(comma.scan)))
            ELSE joined([scan |-> comma.scan, out |-> l.out, res |-> "ok",
                         err |-> NoErr])
        first(l) ==
            IF l.res # "ok" THEN l
            ELSE list(l, consume(skipSpaces(l.scan), COMMA))
    IN  first(literal(skipSpaces(d)))

\* ------------------------------------------------------- strings, strconv
\* strings.TrimSpace, on text whose white space is ASCII white space.
WhiteSpace == {TAB, LF, 11, 12, CR, SP}

RECURSIVE TrimLeft(_)
TrimLeft(s) ==
    IF s # <<>> /\ Head(s) \in WhiteSpace THEN TrimLeft(Tail(s)) ELSE s

RECURSIVE TrimRight(_)
TrimRight(s) ==
    IF s # <<>> /\ s[Len(s)] \in WhiteSpace
    THEN TrimRight(SubSeq(s, 1, Len(s) - 1))
    ELSE s

TrimSpace(s) == TrimRight(TrimLeft(s))

\* strings.Split(str, ","): the pieces between the commas, one more than
\* there are commas.
RECURSIVE Split(_, _)
Split(str, sep) ==
    IF \A i \in 1..Len(str) : str[i] # sep
    THEN <<str>>
    ELSE LET i == CHOOSE k \in 1..Len(str) :
                      str[k] = sep /\ \A j \in 1..(k - 1) : str[j] # sep
         IN  <<SubSeq(str, 1, i - 1)>> \o Split(SubSeq(str, i + 1, Len(str)), sep)

\* The value of a string of decimal digits.
RECURSIVE digitsValue(_)
digitsValue(s) ==
    IF s = <<>> THEN 0
    ELSE 10 * digitsValue(SubSeq(s, 1, Len(s) - 1)) + (s[Len(s)] - 48)

\* strconv.ParseUint(str, 10, 64): digits only, at least one.  The numerals
\* of the model are far below 2^64, so the range check never fires.
ParseUint(str) ==
    IF str # <<>> /\ \A i \in 1..Len(str) : isDigit(str[i])
    THEN [ok |-> TRUE, x |-> digitsValue(str)]
    ELSE [ok |-> FALSE, x |-> 0]

\* strconv.ParseInt(str, 10, 64): an optional sign, then ParseUint.
ParseInt(str) ==
    IF str = <<>> THEN [ok |-> FALSE, x |-> 0]
    ELSE IF Head(str) = MINUS
    THEN LET u == ParseUint(Tail(str)) IN [ok |-> u.ok, x |-> 0 - u.x]
    ELSE IF Head(str) = 43
    THEN ParseUint(Tail(str))
    ELSE ParseUint(str)

\* strconv.ParseBool: "1", "t", "T", "TRUE", "true", "True" and
\* "0", "f", "F", "FALSE", "false", "False".
TrueTexts ==
    {<<49>>, <<116>>, <<84>>, <<84, 82, 85, 69>>, <<116, 114, 117, 101>>,
     <<84, 114, 117, 101>>}

FalseTexts ==
    {<<48>>, <<102>>, <<70>>, <<70, 65, 76, 83, 69>>,
     <<102, 97, 108, 115, 101>>, <<70, 97, 108, 115, 101>>}

ParseBool(str) ==
    IF str \in TrueTexts THEN [ok |-> TRUE, x |-> TRUE]
    ELSE IF str \in FalseTexts THEN [ok |-> TRUE, x |-> FALSE]
    ELSE [ok |-> FALSE, x |-> FALSE]

\* strconv.FormatUint(x, 10) and strconv.FormatInt(x, 10).
RECURSIVE FormatUint(_)
FormatUint(x) ==
    IF x < 10 THEN <<48 + x>>
    ELSE FormatUint(x \div 10) \o <<48 + (x % 10)>>

FormatInt(x) == IF x < 0 THEN <<MINUS>> \o FormatUint(0 - x) ELSE FormatUint(x)

\* strconv.FormatBool.
FormatBool(b) ==
    IF b THEN <<116, 114, 117, 101>> ELSE <<102, 97, 108, 115, 101>>

\* The two lower-case hex digits of a byte (hex.EncodeToString).
hexDigit(n) == IF n < 10 THEN 48 + n ELSE 87 + n

\* quoteString, on text of bytes below 0x80 (each rune is then one byte).
RECURSIVE quoteBody(_)
quoteBody(s) ==
    IF s = <<>> THEN <<>>
    ELSE LET r == Head(s)
             q == IF r >= 32 /\ r <= 126 THEN <<r>>
                  ELSE IF r = LF THEN <<BSLASH, 110>>
                  ELSE IF r = CR THEN <<BSLASH, 114>>
                  ELSE <<BSLASH, 120, hexDigit(r \div 16), hexDigit(r % 16)>>
         IN  q \o quoteBody(Tail(s))

quoteString(s) == <<QUOTE>> \o quoteBody(s) \o <<QUOTE>>

\* ------------------------------------------------------------ section tree
\* A Field is [name, kind, omitempty, commented, value]: Name, the kind of the
\* reflect.Value, OmitEmpty, Commented, and the value the handle refers to.
\* A Section is [name, fields].  A value is a record [b, n, seq, isNil, cap]
\* of which the kind says what is in use:
\*   "bool"    b: TRUE / FALSE
\*   "int"     n: an integer            (int, int8 .. int64)
\*   "uint"    n: a natural number      (uint, uint8 .. uint64)
\*   "string"  seq: the bytes
\*   "ints"    a slice of int; seq: the Len() elements, cap: Cap(),
\*             isNil: whether the slice is nil
Kinds == {"bool", "int", "uint", "string", "ints"}

Val(b, n, seq, isNil, cap) ==
    [b |-> b, n |-> n, seq |-> seq, isNil |-> isNil, cap |-> cap]

BoolV(x) == Val(x, 0, <<>>, FALSE, 0)

IntV(x) == Val(FALSE, x, <<>>, FALSE, 0)

StrV(x) == Val(FALSE, 0, x, FALSE, 0)

Slice(isNil, elems, cap) == Val(FALSE, 0, elems, isNil, cap)

NilSlice == Slice(TRUE, <<>>, 0)

\* A look-up that answers the first field whatever the name: what
\* Section.Field must not be.
FirstField(section, fieldName) == 1

\* Section.Field: the first field of that name.
FieldIndex(section, fieldName) ==
    IF \E i \in 1..Len(section.fields) : section.fields[i].name = fieldName
    THEN CHOOSE i \in 1..Len(section.fields) :
             /\ section.fields[i].name = fieldName
             /\ \A j \in 1..(i - 1) : section.fields[j].name # fieldName
    ELSE 0

\* findSection: the index of the first section of that name, 0 for nil.
findSection(sections, sectionName) ==
    IF \E i \in 1..Len(sections) : sections[i].name = sectionName
    THEN CHOOSE i \in 1..Len(sections) :
             /\ sections[i].name = sectionName
             /\ \A j \in 1..(i - 1) : sections[j].name # sectionName
    ELSE 0

\* reflect.Value.IsZero.
IsZero(kind, v) ==
    CASE kind = "bool" -> ~v.b
      [] kind = "int" -> v.n = 0
      [] kind = "uint" -> v.n = 0
      [] kind = "string" -> v.seq = <<>>
      [] kind = "ints" -> v.isNil

\* ------------------------------------------------------------------ decode
\* The result of decode: the value now in the slot, and "ok", "error" or
\* "panic" (reflect panics on an index outside the slice).
decoded(v) == [v |-> v, res |-> "ok", err |-> NoErr]

parsingFailed(v) == [v |-> v, res |-> "error", err |-> errOther("parsing failed")]

\* decode of a scalar slot.
decodeScalar(str, kind, v) ==
    IF Len(str) = 0 THEN decoded(v)
    ELSE CASE kind = "bool" ->
                LET x == ParseBool(str)
                IN  IF x.ok THEN decoded(BoolV(x.x)) ELSE parsingFailed(v)
           [] kind = "int" ->
                LET x == ParseInt(str)
                IN  IF x.ok THEN decoded(IntV(x.x)) ELSE parsingFailed(v)
           [] kind = "uint" ->
                LET x == ParseUint(str)
                IN  IF x.ok THEN decoded(IntV(x.x)) ELSE parsingFailed(v)
           [] kind = "string" -> decoded(StrV(str))

\* The slice after `if v.Cap() < n { v.Grow(n); v.SetLen(n) }`.  Grow makes
\* room for n more elements than Len(); how much more the runtime allocates
\* is its own choice, `slack` here.  The new elements are zero.
grown(v, n, slack) ==
    IF v.cap < n
    THEN Slice(FALSE,
               v.seq \o [i \in 1..(n - Len(v.seq)) |-> 0],
               Len(v.seq) + n + slack)
    ELSE v

\* The loop of decode over the pieces of a slice, from piece i on.
RECURSIVE decodeElems(_, _, _)
decodeElems(values, v, i) ==
    IF i > Len(values) THEN decoded(v)
    ELSE IF i > Len(v.seq)
    THEN [v |-> v, res |-> "panic",
          err |-> errOther("panic: reflect: slice index out of range")]
    ELSE LET e == decodeScalar(TrimSpace(values[i]), "int", IntV(v.seq[i]))
         IN  IF e.res # "ok" THEN parsingFailed(v)
             ELSE decodeElems(values, [v EXCEPT !.seq[i] = e.v.n], i + 1)

\* decode(str, v) for a slot of the given kind holding v.
decode(str, kind, v, slack) ==
    IF Len(str) = 0 THEN decoded(v)
    ELSE IF kind = "ints"
    THEN LET values == Split(str, COMMA)
         IN  decodeElems(values, grown(v, Len(values), slack), 1)
    ELSE decodeScalar(str, kind, v)

\* ------------------------------------------------------------------ encode
RECURSIVE joinInts(_)
joinInts(elems) ==
    IF elems = <<>> THEN <<>>
    ELSE IF Len(elems) = 1 THEN FormatInt(elems[1])
    ELSE FormatInt(elems[1]) \o <<COMMA>> \o joinInts(Tail(elems))

\* encode(v): the text of a value; never nil for these kinds.
encode(kind, v) ==
    CASE kind = "bool" -> FormatBool(v.b)
      [] kind = "int" -> FormatInt(v.n)
      [] kind = "uint" -> FormatUint(v.n)
      [] kind = "string" -> quoteString(v.seq)
      [] kind = "ints" -> joinInts(v.seq)

\* Field.MarshalText: the text, or nil for an omitempty field holding zero.
MarshalText(f) ==
    IF ~f.omitempty \/ ~IsZero(f.kind, f.value)
    THEN [isNil |-> FALSE, b |-> encode(f.kind, f.value)]
    ELSE [isNil |-> TRUE, b |-> <<>>]

\* A writer that knows neither omitempty nor commented: what Encoder.field
\* must not be.
PlainLine(f) == f.name \o <<EQUALS>> \o encode(f.kind, f.value) \o <<LF>>

\* Encoder.field: what it appends to the buffer.
EncoderField(f) ==
    LET line(b) ==
            (IF f.commented THEN <<SEMI>> ELSE <<>>)
            \o (IF ~b.isNil \/ f.commented
                THEN f.name \o <<EQUALS>> \o b.b \o <<LF>>
                ELSE <<>>)
    IN  line(MarshalText(f))

RECURSIVE EncoderFields(_)
EncoderFields(fields) ==
    IF fields = <<>> THEN <<>>
    ELSE EncoderField(Head(fields)) \o EncoderFields(Tail(fields))

\* Encoder.section.
EncoderSection(section) ==
    <<LBRACKET>> \o section.name \o <<RBRACKET, LF>>
    \o EncoderFields(section.fields)

\* Encoder.Encode / Marshal: the sections in tree order.
RECURSIVE Encode(_)
Encode(sections) ==
    IF sections = <<>> THEN <<>>
    ELSE EncoderSection(Head(sections)) \o Encode(Tail(sections))

\* ------------------------------------------------------------------ inputs
\* Bounds of the inputs.
MaxElems == 3
MaxBody == 2

\* Names: sections "A", "B", "C"; keys "b", "l", "n", "q", "s", "u", "z".
nmA == <<65>>
nmB == <<66>>
nmC == <<67>>

KeyOf(kind) ==
    CASE kind = "bool" -> <<98>>
      [] kind = "int" -> <<110>>
      [] kind = "uint" -> <<117>>
      [] kind = "string" -> <<115>>
      [] kind = "ints" -> <<108>>

Field(fieldName, kind, omitempty, commented, v) ==
    [name |-> fieldName, kind |-> kind, omitempty |-> omitempty,
     commented |-> commented, value |-> v]

Section(sectionName, fields) == [name |-> sectionName, fields |-> fields]

\* Values a field of each kind takes in the values handed to Marshal.
IntVals == {-12, -1, 0, 7, 100}
UintVals == {0, 5, 10}
ElemVals == {-1, 0, 12}
StrVals ==
    {<<>>, <<97>>, <<97, 32, 98>>, <<32, 97>>, <<QUOTE>>, <<BSLASH>>,
     <<BSLASH, 110>>, <<LF>>, <<TAB>>, <<NUL>>, <<97, COMMA, 98>>, <<SEMI>>}

SeqsUpTo(S, n) == UNION {[1..k -> S] : k \in 0..n}

SliceVals ==
    {NilSlice} \cup {Slice(FALSE, e, Len(e)) : e \in SeqsUpTo(ElemVals, MaxElems)}

ValsOf(kind) ==
    CASE kind = "bool" -> {BoolV(x) : x \in BOOLEAN}
      [] kind = "int" -> {IntV(x) : x \in IntVals}
      [] kind = "uint" -> {IntV(x) : x \in UintVals}
      [] kind = "string" -> {StrV(x) : x \in StrVals}
      [] kind = "ints" -> SliceVals

\* The (Go) zero value of a kind, and the values a decode target may hold
\* before the call.
ZeroOf(kind) ==
    CASE kind = "bool" -> BoolV(FALSE)
      [] kind = "int" -> IntV(0)
      [] kind = "uint" -> IntV(0)
      [] kind = "string" -> StrV(<<>>)
      [] kind = "ints" -> NilSlice

PriorVals(kind) ==
    CASE kind = "bool" -> {BoolV(TRUE)}
      [] kind = "int" -> {IntV(9)}
      [] kind = "uint" -> {IntV(9)}
      [] kind = "string" -> {StrV(<<122, 122>>)}
      [] kind = "ints" -> {Slice(FALSE, <<7, 8, 9, 9>>, 4), Slice(FALSE, <<>>, 4)}

\* The extra capacity reflect.Value.Grow may allocate.
GrowSlack == {0, 1}

\* A second field next to the one under study.
FieldZ(x) == Field(<<122>>, "int", FALSE, FALSE, IntV(x))

\* The values handed to Marshal: one section "A" holding one field of kind
\* k, with any flags and value, alone or next to the field z.
SourceFields ==
    UNION {{Field(KeyOf(k), k, o, c, v) :
               o \in BOOLEAN, c \in BOOLEAN, v \in ValsOf(k)} : k \in Kinds}

Sources ==
    {<<Section(nmA, <<f>>)>> : f \in SourceFields}
    \cup {<<Section(nmA, <<FieldZ(3), f>>)>> : f \in SourceFields}
    \cup {<<Section(nmA, <<f, FieldZ(3)>>)>> : f \in SourceFields}

\* The same tree with every slot holding the value pick gives for its kind.
Refill(sections, pick) ==
    [i \in 1..Len(sections) |->
        [sections[i] EXCEPT !.fields =
            [j \in 1..Len(sections[i].fields) |->
                [sections[i].fields[j] EXCEPT
                    !.value = pick[sections[i].fields[j].kind]]]]]

ZeroTree(sections) == Refill(sections, [k \in Kinds |-> ZeroOf(k)])

\* The targets a tree of that type may be when Unmarshal is called: zero, or
\* holding earlier values.
TargetsLike(sections) ==
    {ZeroTree(sections)}
    \cup {Refill(sections,
                 [k \in Kinds |->
                     IF k = "ints" THEN p ELSE CHOOSE x \in PriorVals(k) : TRUE]) :
           p \in PriorVals("ints")}

\* The type the hand-written documents are decoded into:
\*   struct { A struct { n int; l []int; s string }; B struct { n int } }
DocType ==
    <<Section(nmA, <<Field(KeyOf("int"), "int", FALSE, FALSE, IntV(0)),
                     Field(KeyOf("ints"), "ints", FALSE, FALSE, NilSlice),
                     Field(KeyOf("string"), "string", FALSE, FALSE, StrV(<<>>))>>),
      Section(nmB, <<Field(KeyOf("int"), "int", FALSE, FALSE, IntV(0))>>)>>

\* A line of a hand-written document: its text and its line terminator.
Line(txt, nl) == [txt |-> txt, nl |-> nl]

LineSet ==
    {Line(<<LBRACKET, 65, RBRACKET>>, <<LF>>),          \* [A]
     Line(<<LBRACKET, 66, RBRACKET>>, <<LF>>),          \* [B]
     Line(<<LBRACKET, 67, RBRACKET>>, <<LF>>),          \* [C]
     Line(<<110, EQUALS, 53>>, <<LF>>),                 \* n=5
     Line(<<110, EQUALS, 54>>, <<CR, LF>>),             \* n=6 and CR LF
     Line(<<113, EQUALS, 49>>, <<LF>>),                 \* q=1
     Line(<<108, EQUALS, 49, COMMA, 50, COMMA, 51>>, <<LF>>),   \* l=1,2,3
     Line(<<110, EQUALS, 120>>, <<LF>>),                \* n=x
     Line(<<110, EQUALS>>, <<LF>>),                     \* n=
     Line(<<110, EQUALS, 53, SP, EQUALS>>, <<LF>>),     \* n=5 =
     Line(<<>>, <<LF>>),                                \* an empty line
     Line(<<SEMI, 99>>, <<LF>>),                        \* ;c
     Line(<<SP, 110, EQUALS, 55>>, <<LF>>)}             \* n=7 after a space

Headers == {<<>>, <<Line(<<LBRACKET, 65, RBRACKET>>, <<LF>>)>>}

\* Lines with a quoted value that is not closed, a \x escape without two
\* hex digits, and lists with an element that is no value.
QuoteLines ==
    {Line(<<115, EQUALS, QUOTE, 97, 98>>, <<LF>>),                \* s='ab
     Line(<<115, EQUALS, QUOTE, BSLASH, 120, 122, QUOTE>>, <<LF>>)}  \* s='\xz'

ListLines ==
    {Line(<<108, EQUALS, MINUS, 49>>, <<LF>>),                    \* l=-1
     Line(<<108, EQUALS, 49, COMMA, MINUS, 50>>, <<LF>>),         \* l=1,-2
     Line(<<108, EQUALS, 49, COMMA, QUOTE, BSLASH, 113>>, <<LF>>)}   \* l=1,'\q

\* What follows such a line: nothing, an empty line, a comment, a key.
Followers ==
    {<<>>,
     <<Line(<<>>, <<LF>>)>>,
     <<Line(<<SEMI, 99>>, <<LF>>)>>,
     <<Line(<<110, EQUALS, 53>>, <<LF>>)>>}

\* The documents: optionally the header [A], then up to MaxBody lines; and
\* the header [A], one of the lines above and what follows it.
Documents ==
    {h \o b : h \in Headers, b \in SeqsUpTo(LineSet, MaxBody)}
    \cup {<<Line(<<LBRACKET, 65, RBRACKET>>, <<LF>>), x>> \o f :
              x \in QuoteLines \cup ListLines, f \in Followers}

\* The bytes of a document; without its last line terminator if ~eofNewline.
RECURSIVE Render(_, _)
Render(lines, eofNewline) ==
    IF lines = <<>> THEN <<>>
    ELSE IF Len(lines) = 1
    THEN lines[1].txt \o (IF eofNewline THEN lines[1].nl ELSE <<>>)
    ELSE lines[1].txt \o lines[1].nl \o Render(Tail(lines), eofNewline)

\* ------------------------------------------------- structs with pointers
\* A member of a struct as walkStructFields meets it: its key, the kind of
\* what it holds or points to, its flags, and ptr: "no" (not a pointer),
\* "nil" (a nil pointer), "set" (a pointer to value).
Member(key, kind, omitempty, commented, ptr, v) ==
    [name |-> key, kind |-> kind, omitempty |-> omitempty,
     commented |-> commented, ptr |-> ptr, value |-> v]

\* fieldsOf on what walkStructFields hands it for a member of a basic kind:
\* a pointer member is given omitempty and replaced by fieldValue.Elem(),
\* which for a nil pointer is the zero reflect.Value, and v.Type() of that
\* panics.
fieldsOf(m) ==
    IF m.ptr = "nil"
    THEN [res |-> "panic", fields |-> <<>>]
    ELSE [res |-> "ok",
          fields |-> <<Field(m.name, m.kind, m.omitempty \/ m.ptr # "no",
                             m.commented, m.value)>>]

\* fieldsOfStruct: walkStructFields over the members, the fields joined.
RECURSIVE fieldsOfStruct(_)
fieldsOfStruct(members) ==
    LET rest(f, r) ==
            IF r.res # "ok" THEN r
            ELSE [res |-> "ok", fields |-> f.fields \o r.fields]
        first(f) ==
            IF f.res # "ok" THEN f ELSE rest(f, fieldsOfStruct(Tail(members)))
    IN  IF members = <<>> THEN [res |-> "ok", fields |-> <<>>]
        ELSE first(fieldsOf(Head(members)))

\* SectionsOf / sectionsOfStruct on a struct of struct members: "ok" and
\* the tree, or "panic".
RECURSIVE SectionsOf(_)
SectionsOf(root) ==
    LET rest(f, r) ==
            IF r.res # "ok" THEN r
            ELSE [res |-> "ok",
                  sections |-> <<Section(Head(root).name, f.fields)>>
                               \o r.sections]
        first(f) ==
            IF f.res # "ok" THEN [res |-> f.res, sections |-> <<>>]
            ELSE rest(f, SectionsOf(Tail(root)))
    IN  IF root = <<>> THEN [res |-> "ok", sections |-> <<>>]
        ELSE first(fieldsOfStruct(Head(root).members))

\* The values with a pointer member handed to Marshal and Unmarshal:
\*   struct { A struct { z int; p *int } }  and  { A struct { p *int; z int } }
\* with p nil or pointing to an int.
MemberZ(x) == Member(<<122>>, "int", FALSE, FALSE, "no", IntV(x))

MemberP(ptr, x) == Member(<<112>>, "int", FALSE, FALSE, ptr, IntV(x))

Pointers == {MemberP("nil", 0), MemberP("set", 0), MemberP("set", 7)}

PointerStructs ==
    {<<[name |-> nmA, members |-> <<MemberZ(x), p>>]>> :
        x \in {0, 3}, p \in Pointers}
    \cup {<<[name |-> nmA, members |-> <<p, MemberZ(x)>>]>> :
              x \in {0, 3}, p \in Pointers}

\* Two values are of the same struct type.
SameType(a, b) ==
    /\ Len(a) = Len(b)
    /\ \A i \in 1..Len(a) :
        /\ a[i].name = b[i].name
        /\ Len(a[i].members) = Len(b[i].members)
        /\ \A j \in 1..Len(a[i].members) :
            a[i].members[j].name = b[i].members[j].name

\* The decode hooks the type of a target may implement: none, Unmarshaler
\* (the target), SectionUnmarshaler (its member A).
Hooks == {"none", "Unmarshaler", "SectionUnmarshaler"}

\* The targets of the hand-written documents and the hooks of their type.
DocTargets ==
    {<<t, "none">> : t \in TargetsLike(DocType)}
    \cup {<<ZeroTree(DocType), h>> : h \in Hooks \ {"none"}}

\* ------------------------------------------------------------ the decoder
VARIABLES
    pc,     \* "idle", "encoded", "scan" (in the loop of Decoder.scan), and how
            \* Decode ended: "ok" (nil), "err" (an error), "panic", "hang"
            \* (a loop that never ends: the call does not return)
    src,    \* the value handed to Marshal, as the tree SectionsOf makes of it
    out,    \* the bytes Marshal returned
    doc,    \* the lines of the hand-written document being decoded
    eofnl,  \* whether that document ends with a line terminator
    tgt,    \* the decode target, as the tree SectionsOf makes of it
    tgt0,   \* the target as it was when Decode was called
    d,      \* the scanner of the Decoder
    cur,    \* currentSection: an index into tgt, 0 for nil
    err,    \* the error Decode returned
    impl,   \* the decode hook the type of the target implements
    hookCalls,  \* the calls of UnmarshalINI made, in order
    arg,    \* the struct with a pointer member handed to Marshal, <<>> if none
    entry   \* the scanner as it was when takeWhile or takeUntil was called

vars == <<pc, src, out, doc, eofnl, tgt, tgt0, d, cur, err, impl, hookCalls,
          arg, entry>>

\* The state of one Decode call.
Call == [pc |-> pc, d |-> d, cur |-> cur, tgt |-> tgt, err |-> err]

Failed(c, scan, e) == [c EXCEPT !.pc = "err", !.d = scan, !.err = e]

Stopped(c, scan, how, e) == [c EXCEPT !.pc = how, !.d = scan, !.err = e]

\* The end of an iteration of the loop of Decoder.scan: a line terminator
\* must follow.
endOfLine(c, scan) ==
    LET check(nl) ==
            IF nl.ok THEN [c EXCEPT !.d = nl.scan]
            ELSE Failed(c, nl.scan,
                        errExpectedNewLine(nl.scan.lineNum, nl.scan.charNum))
    IN  check(handleNewline(scan))

\* case char == '\000'.
scanEnd(c) == [c EXCEPT !.pc = "ok", !.d = skipSpaces(c.d)]

\* case isNewlineChar(char): `continue` consumes nothing, so the next
\* iteration finds the same byte: the loop never ends.
scanNewline(c) == [c EXCEPT !.pc = "hang", !.d = skipSpaces(c.d)]

\* case isNameChar(char): a key/value pair.
scanKeyValue(c, slack) ==
    LET store(i, r) == [c EXCEPT !.tgt[c.cur].fields[i].value = r.v]
        assigned(i, v, r) ==
            IF r.res = "error" THEN Failed(store(i, r), v.scan, r.err)
            ELSE IF r.res = "panic"
            THEN Stopped(store(i, r), v.scan, "panic", r.err)
            ELSE endOfLine(store(i, r), v.scan)
        found(i, v) ==
            IF i = 0 THEN endOfLine(c, v.scan)
            ELSE assigned(i, v,
                          decode(TrimSpace(v.out),
                                 c.tgt[c.cur].fields[i].kind,
                                 c.tgt[c.cur].fields[i].value, slack))
        valued(nm, v) ==
            IF v.res = "error" THEN Failed(c, v.scan, v.err)
            ELSE IF v.res # "ok" THEN Stopped(c, v.scan, v.res, v.err)
            ELSE IF c.cur = 0
            THEN Failed(c, v.scan, errOther("key must be under section"))
            ELSE found(FieldIndex(c.tgt[c.cur], nm.out), v)
        named(nm, eq) ==
            IF ~eq.ok
            THEN Failed(c, eq.scan,
                        errUnexpectedChar(peek(eq.scan), eq.scan.lineNum,
                                          eq.scan.charNum))
            ELSE valued(nm, value(eq.scan))
        key(nm) == named(nm, consume(nm.scan, EQUALS))
    IN  key(name(skipSpaces(c.d)))

\* case char == '[': a section header.
scanSection(c) ==
    LET looked(i, br) ==
            IF i = 0
            THEN Failed([c EXCEPT !.cur = 0], br.scan,
                        errOther("unknown section"))
            ELSE endOfLine([c EXCEPT !.cur = i], br.scan)
        closed(nm, br) ==
            IF nm.out = <<>> \/ ~br.ok
            THEN Failed(c, br.scan,
                        errUnexpectedChar(peek(br.scan), br.scan.lineNum,
                                          br.scan.charNum))
            ELSE looked(findSection(c.tgt, nm.out), br)
        header(nm) == closed(nm, consume(nm.scan, RBRACKET))
    IN  header(name(advance(skipSpaces(c.d)).scan))

\* case char == '#', char == ';': a comment.
scanComment(c) ==
    LET after(t) ==
            IF t.hang THEN Stopped(c, t.scan, "hang", NoErr)
            ELSE endOfLine(c, t.scan)
    IN  after(takeUntil(skipSpaces(c.d), NewlineSet))

\* default.
scanDefault(c) ==
    LET at(s) == Failed(c, s, errUnexpectedChar(peek(c.d), s.lineNum, s.charNum))
    IN  at(skipSpaces(c.d))

\* One iteration of the loop of Decoder.scan; char is read before the
\* spaces are skipped.
scanStep(c, slack) ==
    LET char == peek(c.d)
    IN  IF char = NUL THEN scanEnd(c)
        ELSE IF isNewlineChar(char) THEN scanNewline(c)
        ELSE IF isNameChar(char) THEN scanKeyValue(c, slack)
        ELSE IF char = LBRACKET THEN scanSection(c)
        ELSE IF char = HASH \/ char = SEMI THEN scanComment(c)
        ELSE scanDefault(c)

\* Decoder.scan from call state c to its end, with the least capacity Grow
\* may allocate.
RECURSIVE scan(_)
scan(c) == IF c.pc # "scan" THEN c ELSE scan(scanStep(c, 0))

\* Decoder.Decode up to the loop: the tree of the target, the scanner on
\* the data.
Decode(data, target) ==
    [pc |-> "scan", d |-> init(data), cur |-> 0, tgt |-> target, err |-> NoErr]

\* Unmarshal(data, &target), to its end.
Unmarshal(data, target) == scan(Decode(data, target))

\* ----------------------------------------------------------------- actions
Init ==
    /\ pc = "idle"
    /\ src = <<>>
    /\ out = <<>>
    /\ doc = <<>>
    /\ eofnl = TRUE
    /\ tgt = <<>>
    /\ tgt0 = <<>>
    /\ d = init(<<>>)
    /\ cur = 0
    /\ err = NoErr
    /\ impl = "none"
    /\ hookCalls = <<>>
    /\ arg = <<>>
    /\ entry = init(<<>>)

\* Marshal(v).
Marshal ==
    /\ pc = "idle"
    /\ \E v \in Sources :
        /\ src' = v
        /\ out' = Encode(v)
    /\ pc' = "encoded"
    /\ UNCHANGED <<doc, eofnl, tgt, tgt0, d, cur, err, impl, hookCalls, arg, entry>>

\* Marshal(v) of a struct with a pointer member: Encoder.Encode calls
\* SectionsOf first.
MarshalPointers ==
    /\ pc = "idle"
    /\ \E v \in PointerStructs :
        /\ arg' = v
        /\ pc' = IF SectionsOf(v).res = "ok" THEN "encoded" ELSE "panic"
        /\ src' = SectionsOf(v).sections
        /\ out' = Encode(SectionsOf(v).sections)
    /\ UNCHANGED <<doc, eofnl, tgt, tgt0, d, cur, err, impl, hookCalls, entry>>

Begin(c) ==
    /\ pc' = c.pc
    /\ d' = c.d
    /\ cur' = c.cur
    /\ tgt' = c.tgt
    /\ tgt0' = c.tgt
    /\ err' = c.err

\* Unmarshal(out, &t) on the bytes Marshal returned, t of the type of src.
UnmarshalEncoded ==
    /\ pc = "encoded"
    /\ arg = <<>>
    /\ \E t \in TargetsLike(src) : Begin(Decode(out, t))
    /\ UNCHANGED <<src, out, doc, eofnl, impl, hookCalls, arg, entry>>

\* Unmarshal(out, &t) on the bytes Marshal returned, t a struct of the type
\* of arg: Decoder.Decode calls SectionsOf first.
UnmarshalPointers ==
    /\ pc = "encoded"
    /\ arg # <<>>
    /\ \E t \in PointerStructs :
        /\ SameType(t, arg)
        /\ arg' = t
        /\ IF SectionsOf(t).res = "ok"
           THEN Begin(Decode(out, SectionsOf(t).sections))
           ELSE /\ pc' = "panic"
                /\ UNCHANGED <<d, cur, tgt, tgt0, err>>
    /\ UNCHANGED <<src, out, doc, eofnl, impl, hookCalls, entry>>

\* Unmarshal(data, &t) on a hand-written document, t of the document type.
UnmarshalDocument ==
    /\ pc = "idle"
    /\ \E lines \in Documents, nl \in BOOLEAN, t \in DocTargets :
        /\ lines # <<>> \/ nl
        /\ doc' = lines
        /\ eofnl' = nl
        /\ impl' = t[2]
        /\ Begin(Decode(Render(lines, nl), t[1]))
    /\ UNCHANGED <<src, out, hookCalls, arg, entry>>

Step(c) ==
    /\ pc' = c.pc
    /\ d' = c.d
    /\ cur' = c.cur
    /\ tgt' = c.tgt
    /\ err' = c.err
    /\ UNCHANGED <<src, out, doc, eofnl, tgt0, impl, hookCalls, arg, entry>>

ScanEnd ==
    /\ pc = "scan"
    /\ peek(d) = NUL
    /\ Step(scanEnd(Call))

ScanNewline ==
    /\ pc = "scan"
    /\ isNewlineChar(peek(d))
    /\ Step(scanNewline(Call))

ScanKeyValue ==
    /\ pc = "scan"
    /\ isNameChar(peek(d))
    /\ \E slack \in GrowSlack : Step(scanKeyValue(Call, slack))

ScanSection ==
    /\ pc = "scan"
    /\ peek(d) = LBRACKET
    /\ Step(scanSection(Call))

ScanComment ==
    /\ pc = "scan"
    /\ peek(d) \in {HASH, SEMI}
    /\ Step(scanComment(Call))

ScanDefault ==
    /\ pc = "scan"
    /\ peek(d) # NUL
    /\ ~isNewlineChar(peek(d))
    /\ ~isNameChar(peek(d))
    /\ peek(d) \notin {LBRACKET, HASH, SEMI}
    /\ Step(scanDefault(Call))

Next ==
    \/ Marshal
    \/ MarshalPointers
    \/ UnmarshalEncoded
    \/ UnmarshalPointers
    \/ UnmarshalDocument
    \/ ScanEnd
    \/ ScanNewline
    \/ ScanKeyValue
    \/ ScanSection
    \/ ScanComment
    \/ ScanDefault

Spec == Init /\ [][Next]_vars

\* ------------------------------------------------- the scanner on its own
\* The scanner driven directly: init on a buffer of any bytes, then advance,
\* takeWhile and takeUntil in any order.

MaxBuf == 3

BufBytes == {NUL, LF, CR, 97}

Buffers == SeqsUpTo(BufBytes, MaxBuf)

\* The predicates handed to takeWhile and takeUntil, as the sets of bytes
\* they accept: isNewlineChar, a letter, a letter or the zero byte.
Predicates == {NewlineSet, {97}, {NUL, 97}}

InitTake ==
    /\ pc = "init"
    /\ src = <<>>
    /\ out = <<>>
    /\ doc = <<>>
    /\ eofnl = TRUE
    /\ tgt = <<>>
    /\ tgt0 = <<>>
    /\ \E buffer \in Buffers : d = init(buffer)
    /\ cur = 0
    /\ err = NoErr
    /\ impl = "none"
    /\ hookCalls = <<>>
    /\ arg = <<>>
    /\ entry = init(<<>>)

Taken(r) ==
    /\ pc' = IF r.hang THEN "hang" ELSE "took"
    /\ d' = r.scan
    /\ out' = r.out
    /\ entry' = d
    /\ UNCHANGED <<src, doc, eofnl, tgt, tgt0, cur, err, impl, hookCalls, arg>>

\* scan.advance() where the cursor moves.
Advance ==
    /\ pc \in {"init", "advanced", "took"}
    /\ advance(d).scan # d
    /\ pc' = "advanced"
    /\ d' = advance(d).scan
    /\ UNCHANGED <<src, out, doc, eofnl, tgt, tgt0, cur, err, impl,
                   hookCalls, arg, entry>>

\* scan.takeWhile(f)
TakeWhile ==
    /\ pc \in {"init", "advanced", "took"}
    /\ \E f \in Predicates : Taken(takeWhile(d, f))

\* scan.takeUntil(f)
TakeUntil ==
    /\ pc \in {"init", "advanced", "took"}
    /\ \E f \in Predicates : Taken(takeUntil(d, f))

NextTake ==
    \/ Advance
    \/ TakeWhile
    \/ TakeUntil

SpecTake == InitTake /\ [][NextTake]_vars

\* ------------------------------------------------------------- properties
\* The Decode call is over: it returned nil or an error, panicked, or is in
\* a loop it never leaves.
Ended == pc \in {"ok", "err", "panic", "hang"}

\* reflect.DeepEqual on two values of a kind: a nil slice and an empty
\* slice differ, capacities do not count.
DeepEqual(kind, a, b) ==
    CASE kind = "bool" -> a.b = b.b
      [] kind = "int" -> a.n = b.n
      [] kind = "uint" -> a.n = b.n
      [] kind = "string" -> a.seq = b.seq
      [] kind = "ints" -> a.isNil = b.isNil /\ a.seq = b.seq

DeepEqualTree(a, b) ==
    /\ Len(a) = Len(b)
    /\ \A i \in 1..Len(a) :
        /\ Len(a[i].fields) = Len(b[i].fields)
        /\ \A j \in 1..Len(a[i].fields) :
            DeepEqual(a[i].fields[j].kind, a[i].fields[j].value,
                      b[i].fields[j].value)

\* The header line Encoder.section writes for the one section of src.
SrcHeader == <<LBRACKET>> \o src[1].name \o <<RBRACKET, LF>>

\* src is one section of fields that carry neither omitempty nor commented.
PlainSource ==
    /\ src # <<>>
    /\ \A j \in 1..Len(src[1].fields) :
        ~src[1].fields[j].omitempty /\ ~src[1].fields[j].commented

\* src is one section of the single untagged field of the given kind.
OneField(kind) ==
    /\ PlainSource
    /\ Len(src[1].fields) = 1
    /\ src[1].fields[1].kind = kind

\* C1: round trip.  For every value v of supported leaf kinds (booleans,
\* signed and unsigned integers, negative ones included, text, sequences),
\* Unmarshal(Marshal(v), &v2) into a zero v2 of the type of v returns no
\* error and leaves v2 deep-equal to v.
C1_RoundTrip ==
    (Ended /\ PlainSource /\ tgt0 = ZeroTree(src))
        => (pc = "ok" /\ DeepEqualTree(tgt, src))

\* The offset of line k of a document in its bytes.
LineStart(lines, k) == Len(Render(SubSeq(lines, 1, k - 1), TRUE))

\* The decoder is at the head of its loop with the cursor on line k of doc.
AtLine(k) ==
    /\ pc = "scan"
    /\ k \in 1..Len(doc)
    /\ d.bufPos = LineStart(doc, k)

SectionNames == {nmA, nmB, nmC}

KeyNames == {<<108>>, <<110>>, <<113>>, <<115>>}

\* Value texts that satisfy the value grammar.
GoodValues == {<<49>>, <<53>>, <<49, COMMA, 50, COMMA, 51>>}

C2UnknownSection ==
    \A k \in 1..Len(doc), nm \in SectionNames :
        (/\ AtLine(k)
         /\ doc[k].txt = <<LBRACKET>> \o nm \o <<RBRACKET>>
         /\ \A i \in 1..Len(tgt) : tgt[i].name # nm)
        => (/\ pc' = "err"
            /\ err'.kind = "unknown section"
            /\ tgt' = tgt)

C2UnknownKey ==
    \A k \in 1..Len(doc), key \in KeyNames, val \in GoodValues :
        (/\ AtLine(k)
         /\ cur # 0
         /\ doc[k].txt = key \o <<EQUALS>> \o val
         /\ \A j \in 1..Len(tgt[cur].fields) : tgt[cur].fields[j].name # key
         /\ (k < Len(doc) \/ eofnl))
        => (/\ pc' = "scan"
            /\ err' = NoErr
            /\ tgt' = tgt
            /\ cur' = cur
            /\ d'.bufPos = LineStart(doc, k + 1))

\* C2: a section header naming no section of the target makes Decode fail
\* with "unknown section"; a line `key=value` whose key names no field of
\* the open section, followed by its line terminator, is no error: the
\* target is left as it was and the decoder goes on at the next line.
C2_UnknownSectionFatalUnknownKeyIgnored ==
    [][C2UnknownSection /\ C2UnknownKey]_vars

\* Reached: the document [A], q=1, n=5 decoded without error, and n is 5.
C2_Witness ==
    /\ pc = "ok"
    /\ Len(doc) = 3
    /\ doc[1].txt = <<LBRACKET, 65, RBRACKET>>
    /\ doc[2].txt = <<113, EQUALS, 49>>
    /\ doc[3].txt = <<110, EQUALS, 53>>
    /\ tgt[1].fields[1].value = IntV(5)
    /\ tgt0[1].fields[1].value = IntV(9)

\* isZeroOrEmpty (a helper no code calls) on the value of a field: the zero
\* value of its kind, or a sequence without elements, nil or not.
isZeroOrEmpty(f) ==
    \/ IsZero(f.kind, f.value)
    \/ (f.kind = "ints" /\ Len(f.value.seq) = 0)

\* The lines C3 asks of fields that are not commented.
RECURSIVE C3Lines(_)
C3Lines(fields) ==
    IF fields = <<>> THEN <<>>
    ELSE (IF Head(fields).omitempty /\ isZeroOrEmpty(Head(fields)) THEN <<>>
          ELSE Head(fields).name \o <<EQUALS>>
               \o encode(Head(fields).kind, Head(fields).value) \o <<LF>>)
         \o C3Lines(Tail(fields))

\* C3: for fields that are not commented, Encode writes no line for an
\* omitempty field holding the zero value or a sequence without elements
\* (nil or allocated), and exactly one line name=value for any other field.
C3_OmitEmpty ==
    (/\ pc = "encoded"
     /\ \A j \in 1..Len(src[1].fields) : ~src[1].fields[j].commented)
        => out = SrcHeader \o C3Lines(src[1].fields)

\* The line C4 asks of a commented field.
C4Line(f) ==
    <<SEMI>> \o f.name \o <<EQUALS>>
    \o (IF f.omitempty /\ IsZero(f.kind, f.value) THEN <<>>
        ELSE encode(f.kind, f.value))
    \o <<LF>>

RECURSIVE C4Lines(_)
C4Lines(fields) ==
    IF fields = <<>> THEN <<>>
    ELSE (IF Head(fields).commented THEN C4Line(Head(fields))
          ELSE EncoderField(Head(fields)))
         \o C4Lines(Tail(fields))

\* Every commented field of src has its one line in the output, and that
\* line holds no line terminator but its last byte.
C4Encoded ==
    (src # <<>>) =>
        /\ out = SrcHeader \o C4Lines(src[1].fields)
        /\ \A j \in 1..Len(src[1].fields) :
            src[1].fields[j].commented =>
                \A i \in 1..(Len(C4Line(src[1].fields[j])) - 1) :
                    C4Line(src[1].fields[j])[i] \notin {LF, CR}

\* While the output is decoded the slot of a commented field keeps the value
\* it had when Decode was called.
C4Untouched ==
    (src # <<>> /\ pc \notin {"idle", "encoded"}) =>
        \A j \in 1..Len(src[1].fields) :
            src[1].fields[j].commented =>
                tgt[1].fields[j].value = tgt0[1].fields[j].value

\* The decoder on the line of a commented field (line j + 1: the header is
\* line 1 and every field before it has a line) goes on to the next line
\* without error.
C4Skipped ==
    (src # <<>> /\ pc = "scan") =>
        \A j \in 1..Len(src[1].fields) :
            (/\ src[1].fields[j].commented
             /\ \A i \in 1..(j - 1) : EncoderField(src[1].fields[i]) # <<>>
             /\ d.lineNum = j + 1)
            => (/\ pc' = "scan"
                /\ err' = NoErr
                /\ tgt' = tgt
                /\ d'.lineNum = j + 2)

\* C4: a commented field is always in the output as exactly one line
\* ;name=value, and ;name= when it is omitempty and holds the zero value;
\* decoding the output raises no error on that line and does not assign the
\* slot of the commented field.
C4_CommentedFields ==
    [](C4Encoded /\ C4Untouched) /\ [][C4Skipped]_vars

\* Reached: a commented field holding a non-zero value, written next to the
\* field z, was decoded into a target that held other values: Decode returned
\* nil, z was assigned and the slot of the commented field still holds what
\* it held.
C4_Witness ==
    /\ pc = "ok"
    /\ src # <<>>
    /\ Len(src[1].fields) = 2
    /\ src[1].fields[2].commented
    /\ ~IsZero(src[1].fields[2].kind, src[1].fields[2].value)
    /\ tgt0 # ZeroTree(src)
    /\ tgt[1].fields[1].value = IntV(3)
    /\ tgt[1].fields[2].value = tgt0[1].fields[2].value
    /\ tgt[1].fields[2].value # src[1].fields[2].value

\* What Unmarshal makes of a document, from the target as it was.
Reference(lines, eofNewline) == Unmarshal(Render(lines, eofNewline), tgt0)

NotBlank(line) == line.txt # <<>>

\* C5: empty lines are no-ops.  A document that holds empty lines, and
\* decodes without error once they are taken out, decodes itself: Decode
\* returns, without error and with the same target.
C5_BlankLinesAreNoOps ==
    (/\ Ended
     /\ doc # <<>>
     /\ eofnl
     /\ \E k \in 1..Len(doc) : ~NotBlank(doc[k])
     /\ Reference(SelectSeq(doc, NotBlank), TRUE).pc = "ok")
        => (/\ pc = "ok"
            /\ DeepEqualTree(tgt, Reference(SelectSeq(doc, NotBlank), TRUE).tgt))

\* A line without its leading spaces.
RECURSIVE TrimLine(_)
TrimLine(line) ==
    IF line.txt # <<>> /\ Head(line.txt) = SP
    THEN TrimLine([line EXCEPT !.txt = Tail(line.txt)])
    ELSE line

Unspaced(lines) == [k \in 1..Len(lines) |-> TrimLine(lines[k])]

\* C6: leading spaces are skipped before the dispatch.  A document that
\* holds lines starting with spaces, and decodes without error once those
\* spaces are taken out, decodes itself without error to the same target.
C6_LeadingSpaces ==
    (/\ Ended
     /\ doc # <<>>
     /\ eofnl
     /\ Unspaced(doc) # doc
     /\ Reference(Unspaced(doc), TRUE).pc = "ok")
        => (/\ pc = "ok"
            /\ DeepEqualTree(tgt, Reference(Unspaced(doc), TRUE).tgt))

\* C7: the end of the buffer ends a construct as a newline does.  A
\* document whose last line has no line terminator decodes to what the same
\* document with the terminator decodes to; and a byte that is neither makes
\* Decode fail with "expected new line".
C7_NewlineOrEndOfBuffer ==
    /\ (Ended /\ doc # <<>> /\ ~eofnl /\ Reference(doc, TRUE).pc \in {"ok", "err"})
        => (/\ pc = Reference(doc, TRUE).pc
            /\ DeepEqualTree(tgt, Reference(doc, TRUE).tgt))
    /\ (Ended /\ doc = <<Line(<<LBRACKET, 65, RBRACKET>>, <<LF>>),
                         Line(<<110, EQUALS, 53, SP, EQUALS>>, <<LF>>)>>)
        => (pc = "err" /\ err.kind = "expected new line")

\* C8: the literal quoteString makes of a text s is read in full by the
\* single-quote grammar, up to and with the closing quote, as s; and
\* decoding the line key=literal into a text field assigns s.
C8_TextReparseable ==
    OneField("string") =>
        /\ pc = "encoded" =>
            /\ literal(init(quoteString(src[1].fields[1].value.seq))).res = "ok"
            /\ literal(init(quoteString(src[1].fields[1].value.seq))).scan.bufPos
                   = Len(quoteString(src[1].fields[1].value.seq))
            /\ literal(init(quoteString(src[1].fields[1].value.seq))).out
                   = src[1].fields[1].value.seq
        /\ Ended =>
            /\ pc = "ok"
            /\ tgt[1].fields[1].value.seq = src[1].fields[1].value.seq

\* C9: a sequence of integers (here: of naturals) that is not empty is
\* written as the base-10 texts of its elements joined by commas, and
\* decoding that line leaves the target sequence with exactly those
\* elements, whatever it held.
C9_IntSequences ==
    (/\ OneField("ints")
     /\ src[1].fields[1].value.seq # <<>>
     /\ \A i \in 1..Len(src[1].fields[1].value.seq) :
            src[1].fields[1].value.seq[i] >= 0) =>
        /\ pc = "encoded" =>
            out = SrcHeader \o <<108, EQUALS>>
                  \o joinInts(src[1].fields[1].value.seq) \o <<LF>>
        /\ Ended =>
            /\ pc = "ok"
            /\ tgt[1].fields[1].value.seq = src[1].fields[1].value.seq

\* C10: a Decode that returns an error leaves every field of the target
\* with the value it had when Decode was called, the fields named by valid
\* lines before the failing one included.  (Stated for the errors of a
\* line that assigns nothing itself: an unknown section, a value that does
\* not parse; and for documents that end in a line terminator.)
C10_FailedDecodeDiscardsProgress ==
    (/\ pc = "err"
     /\ doc # <<>>
     /\ eofnl
     /\ err.kind \in {"parsing failed", "unknown section"})
        => DeepEqualTree(tgt, tgt0)

\* The document decoded is the header [A] and then line x, possibly with
\* more lines after it.
SecondLine(x) == Len(doc) >= 2 /\ doc[2] = x

\* C11: a quoted value that is not closed before the end of its line or of
\* the buffer, or that holds \x without two hex digits after it, makes
\* Decode return an error that carries line and column: Decode does not
\* return nil, does not panic, and the text field the line names keeps its
\* value.
C11_UnclosedQuoteIsSyntaxError ==
    (Ended /\ \E x \in QuoteLines : SecondLine(x))
        => (/\ pc = "err"
            /\ err.line >= 1
            /\ err.col >= 1
            /\ tgt[1].fields[3].value = tgt0[1].fields[3].value)

\* C12: the decode hooks are honoured.  A Decode that reaches the end of
\* its input into a target whose type implements Unmarshaler has called
\* UnmarshalINI of the target, and the walker has bound nothing; into a
\* target whose member A implements SectionUnmarshaler, and on input that
\* holds the header [A], it has called UnmarshalINI of that member.
C12_DecodeHooksHonoured ==
    /\ (pc = "ok" /\ impl = "Unmarshaler")
        => (/\ \E i \in 1..Len(hookCalls) : hookCalls[i] = "Unmarshaler"
            /\ tgt = tgt0)
    /\ (pc = "ok" /\ impl = "SectionUnmarshaler"
        /\ \E k \in 1..Len(doc) : doc[k].txt = <<LBRACKET, 65, RBRACKET>>)
        => \E i \in 1..Len(hookCalls) : hookCalls[i] = "SectionUnmarshaler"

\* The lines C13 asks of the members of a struct: none for a pointer member
\* that is nil or points to the zero value, name=value for the others.
RECURSIVE C13Lines(_)
C13Lines(members) ==
    IF members = <<>> THEN <<>>
    ELSE (IF Head(members).ptr # "no"
             /\ (Head(members).ptr = "nil"
                 \/ IsZero(Head(members).kind, Head(members).value))
          THEN <<>>
          ELSE Head(members).name \o <<EQUALS>>
               \o encode(Head(members).kind, Head(members).value) \o <<LF>>)
         \o C13Lines(Tail(members))

\* C13: a struct with a nil pointer member is walked without failure.
\* Marshal and Unmarshal of it do not panic; Marshal writes no line for the
\* nil member and the lines of the other members; Unmarshal of those bytes
\* into a struct of the type returns nil.
C13_NilPointerMembers ==
    (arg # <<>>) =>
        /\ pc # "panic"
        /\ pc = "encoded" =>
            out = <<LBRACKET>> \o arg[1].name \o <<RBRACKET, LF>>
                  \o C13Lines(arg[1].members)
        /\ Ended => pc = "ok"

\* C14: an element of a comma-separated list that fails the value grammar,
\* first or later, makes Decode return an error, and the sequence field the
\* line names keeps its value.
C14_ListErrorsPropagate ==
    (Ended /\ \E x \in ListLines : SecondLine(x))
        => (/\ pc = "err"
            /\ tgt[1].fields[2].value = tgt0[1].fields[2].value)

\* C15: on any buffer, zero bytes included, and for any predicate, takeWhile
\* and takeUntil return; the bytes returned are exactly the bytes of the
\* buffer between the cursor at entry and the cursor at exit; the cursor
\* does not move backwards and does not pass the end of the buffer.
C15_TakeTerminatesExact ==
    (pc \in {"took", "hang"}) =>
        /\ pc # "hang"
        /\ entry.bufPos <= d.bufPos
        /\ d.bufPos <= Len(d.buf)
        /\ out = SubSeq(d.buf, entry.bufPos + 1, d.bufPos)

====
